---- MODULE Spec2Model ----
(***************************************************************************)
(* A model of two programs of the repository:                              *)
(*                                                                         *)
(*  - .github/scripts/matrices.py, the generator of the CI test matrix:    *)
(*    the module-level globals (profile, is_pr, targets, config) and the   *)
(*    three nested loops of main(), one step per loop-head evaluation,     *)
(*    followed by print_json.  Specification: Spec.                        *)
(*                                                                         *)
(*  - optimization_framework.py, AdvancedOptimizationFramework: the two    *)
(*    dictionaries of the object and optimize_operation as one step.       *)
(*    Specification: SpecOpt.                                              *)
(*                                                                         *)
(* Python strings are TLA+ strings, f-strings are concatenations with \o,  *)
(* and json.dumps is modelled by the text it produces.                     *)
(***************************************************************************)
EXTENDS Integers, Sequences, FiniteSets, TLC

VARIABLES
    env,                 \* os.environ: a partial function name -> value
    profile,             \* module global `profile`
    is_pr,               \* module global `is_pr`
    targets,             \* module global `targets`
    pc,                  \* position of main()
    ti,                  \* index in `targets` of the loop variable `target`
    ci,                  \* index in `config` of the loop variable `case`
    partition,           \* loop variable `partition` (0: range not started)
    expanded,            \* local list `expanded` of main()
    origin,              \* history: <<ti, ci>> at each append to `expanded`
    stdout,              \* the sequence of writes made to standard output
    performance_metrics, \* AdvancedOptimizationFramework.performance_metrics
    optimization_cache,  \* AdvancedOptimizationFramework.optimization_cache
    last_call            \* history: the latest optimize_operation call

varsMatrix == <<env, profile, is_pr, targets, pc, ti, ci, partition,
                expanded, origin, stdout>>
varsOpt == <<performance_metrics, optimization_cache, last_call>>
vars == <<varsMatrix, varsOpt>>

\* Python's None, as returned by os.environ.get for an absent variable.
\* No environment value enumerated below equals it.
None == "<None>"

(***************************************************************************)
(* matrices.py: the environment                                            *)
(***************************************************************************)

\* The variables an invocation may find in its environment: the two the
\* script reads, and one it does not read.
EnvNames == {"PROFILE", "EVENT_NAME", "MATRIX_MODE"}

EnvValues(k) ==
    CASE k = "PROFILE" -> {"isolate", "default", ""}
      [] k = "EVENT_NAME" -> {"pull_request", "push", "pull_request_target"}
      [] k = "MATRIX_MODE" -> {"tests"}

AllEnvValues == UNION {EnvValues(k) : k \in EnvNames}

Environments ==
    UNION {{e \in [S -> AllEnvValues] : \A k \in S : e[k] \in EnvValues(k)} :
              S \in SUBSET EnvNames}

\* os.environ.get(k)
environ_get(e, k) == IF k \in DOMAIN e THEN e[k] ELSE None

(***************************************************************************)
(* matrices.py: the static tables                                          *)
(***************************************************************************)

Target(runner_label, target, svm_target_platform) ==
    [runner_label |-> runner_label, target |-> target,
     svm_target_platform |-> svm_target_platform]

Case(name, filter, n_partitions, pr_cross_platform) ==
    [name |-> name, filter |-> filter, n_partitions |-> n_partitions,
     pr_cross_platform |-> pr_cross_platform]

Expanded(name, runner_label, target, svm_target_platform, flags, part) ==
    [name |-> name, runner_label |-> runner_label, target |-> target,
     svm_target_platform |-> svm_target_platform, flags |-> flags,
     partition |-> part]

t_linux_x86 == Target("ubuntu-latest", "x86_64-unknown-linux-gnu", "linux-amd64")
t_macos == Target("macos-latest", "aarch64-apple-darwin", "macosx-aarch64")
t_windows == Target("windows-latest", "x86_64-pc-windows-msvc", "windows-amd64")

config ==
    << Case("unit", "!kind(test)", 1, TRUE),
       Case("integration",
            "kind(test) & !test(/issue|forge_std|ext_integration/)", 3, TRUE),
       Case("integration / issue-repros",
            "package(=forge) & test(~issue)", 2, FALSE),
       Case("integration / external",
            "package(=forge) & test(~ext_integration)", 2, FALSE) >>

\* is_pr = os.environ.get("EVENT_NAME") == "pull_request"
compute_is_pr_any_event(e) == environ_get(e, "EVENT_NAME") # None
compute_is_pr(e) == environ_get(e, "EVENT_NAME") = "pull_request"

\* targets = [t_linux_x86, t_windows] if is_pr else [t_linux_x86, t_macos, t_windows]
select_targets(pr) ==
    IF pr THEN <<t_linux_x86, t_windows>>
          ELSE <<t_linux_x86, t_macos, t_windows>>

(***************************************************************************)
(* matrices.py: the pieces of the loop body of main()                      *)
(***************************************************************************)

\* if is_pr and (not case.pr_cross_platform and target != t_linux_x86): continue
skip_any_mode(target, case) ==
    ~case.pr_cross_platform /\ target # t_linux_x86
skip(target, case) ==
    is_pr /\ (~case.pr_cross_platform /\ target # t_linux_x86)

\* the stop of range(1, case.n_partitions + 1)
range_stop_short(case) == case.n_partitions
range_stop(case) == case.n_partitions + 1

\* os_str = "" ; if len(targets) > 1: os_str = f" ({target.target})"
os_str_empty(target) == ""
os_str(target) ==
    IF Len(targets) > 1 THEN " (" \o target.target \o ")" ELSE ""

\* s = f"{partition}/{case.n_partitions}"
shard(case, part) == ToString(part) \o "/" \o ToString(case.n_partitions)

\* name = case.name ; name += f" ({s})" ; name += os_str
compose_name_os_first(target, case, part) ==
    LET n0 == case.name \o os_str(target)
    IN  IF case.n_partitions > 1
        THEN n0 \o " (" \o shard(case, part) \o ")"
        ELSE n0
compose_name(target, case, part) ==
    LET n0 == case.name
        n1 == IF case.n_partitions > 1
              THEN n0 \o " (" \o shard(case, part) \o ")"
              ELSE n0
    IN  n1 \o os_str(target)

\* flags = f"-E '{case.filter}'" ; flags += f" --partition count:{s}" ;
\* if profile == "isolate": flags += " --features=isolate-by-default"
compose_flags_truthy(case, part) ==
    LET f0 == "-E '" \o case.filter \o "'"
        f1 == IF case.n_partitions > 1
              THEN f0 \o " --partition count:" \o shard(case, part)
              ELSE f0
    IN  IF profile # None /\ profile # ""
        THEN f1 \o " --features=isolate-by-default"
        ELSE f1
compose_flags(case, part) ==
    LET f0 == "-E '" \o case.filter \o "'"
        f1 == IF case.n_partitions > 1
              THEN f0 \o " --partition count:" \o shard(case, part)
              ELSE f0
    IN  IF profile = "isolate"
        THEN f1 \o " --features=isolate-by-default"
        ELSE f1

\* obj = Expanded(name=..., ...) ; vars(obj)
make_obj(target, case, part) ==
    Expanded(compose_name(target, case, part), target.runner_label,
             target.target, target.svm_target_platform,
             compose_flags(case, part), part)

\* expanded.append(...)
list_prepend(list, x) == <<x>> \o list
list_append(list, x) == Append(list, x)

(***************************************************************************)
(* matrices.py: json.dumps, by the text it writes for these values         *)
(* (default separators ", " and ": "; no character of the tables needs an  *)
(* escape).                                                                *)
(***************************************************************************)

json_str(s) == "\"" \o s \o "\""

json_member(k, v) == json_str(k) \o ": " \o v

\* one dict of vars(Expanded), keys in the order __init__ assigns them
json_obj(d) ==
    "{" \o json_member("name", json_str(d.name)) \o ", "
        \o json_member("runner_label", json_str(d.runner_label)) \o ", "
        \o json_member("target", json_str(d.target)) \o ", "
        \o json_member("svm_target_platform", json_str(d.svm_target_platform)) \o ", "
        \o json_member("flags", json_str(d.flags)) \o ", "
        \o json_member("partition", ToString(d.partition)) \o "}"

RECURSIVE json_join(_)
json_join(items) ==
    IF items = <<>> THEN ""
    ELSE IF Len(items) = 1 THEN items[1]
    ELSE items[1] \o ", " \o json_join(Tail(items))

json_list(items) == "[" \o json_join(items) \o "]"

\* the same document holding bare {os, target} records, one per target
json_dumps_platforms(include) ==
    "{" \o json_member("include",
                       json_list([k \in 1..Len(targets) |->
                           "{" \o json_member("os", json_str(targets[k].runner_label))
                               \o ", "
                               \o json_member("target", json_str(targets[k].target))
                               \o "}"]))
        \o "}"

\* json.dumps({"include": expanded})
json_dumps(include) ==
    "{" \o json_member("include",
                       json_list([k \in 1..Len(include) |-> json_obj(include[k])]))
        \o "}"

(***************************************************************************)
(* matrices.py: the module globals after import, and main() step by step   *)
(***************************************************************************)

EmptyDict == [k \in {} |-> None]

\* no optimize_operation call made yet
NoCall ==
    [name |-> None, time |-> 0, had_previous |-> FALSE, previous |-> 0,
     raised |-> FALSE]

OptIdle ==
    /\ performance_metrics = EmptyDict
    /\ optimization_cache = EmptyDict
    /\ last_call = NoCall

Init ==
    /\ env \in Environments
    /\ profile = environ_get(env, "PROFILE")
    /\ is_pr = compute_is_pr(env)
    /\ targets = select_targets(is_pr)
    /\ pc = "for_target"
    /\ ti = 0
    /\ ci = 0
    /\ partition = 0
    /\ expanded = <<>>
    /\ origin = <<>>
    /\ stdout = <<>>
    /\ OptIdle

globals == <<env, profile, is_pr, targets>>

\* for target in targets: the next element
for_target_next ==
    /\ pc = "for_target"
    /\ ti < Len(targets)
    /\ ti' = ti + 1
    /\ ci' = 0
    /\ pc' = "for_case"
    /\ UNCHANGED <<globals, partition, expanded, origin, stdout, varsOpt>>

\* for target in targets: exhausted, main() goes on to print_json
for_target_end ==
    /\ pc = "for_target"
    /\ ti = Len(targets)
    /\ pc' = "print_json"
    /\ UNCHANGED <<globals, ti, ci, partition, expanded, origin, stdout, varsOpt>>

\* for case in config: the next element, which is not skipped
for_case_next ==
    /\ pc = "for_case"
    /\ ci < Len(config)
    /\ ~skip(targets[ti], config[ci + 1])
    /\ ci' = ci + 1
    /\ partition' = 0
    /\ pc' = "for_partition"
    /\ UNCHANGED <<globals, ti, expanded, origin, stdout, varsOpt>>

\* for case in config: the next element, skipped by `continue`
for_case_continue ==
    /\ pc = "for_case"
    /\ ci < Len(config)
    /\ skip(targets[ti], config[ci + 1])
    /\ ci' = ci + 1
    /\ UNCHANGED <<globals, pc, ti, partition, expanded, origin, stdout, varsOpt>>

\* for case in config: exhausted
for_case_end ==
    /\ pc = "for_case"
    /\ ci = Len(config)
    /\ pc' = "for_target"
    /\ UNCHANGED <<globals, ti, ci, partition, expanded, origin, stdout, varsOpt>>

\* the value range(1, stop) yields after `partition` (0: before the first)
range_next(part) == IF part = 0 THEN 1 ELSE part + 1

\* the same iteration, writing the document at every append
for_partition_next_printing ==
    /\ pc = "for_partition"
    /\ range_next(partition) < range_stop(config[ci])
    /\ partition' = range_next(partition)
    /\ expanded' = list_append(expanded,
                               make_obj(targets[ti], config[ci], partition'))
    /\ origin' = list_append(origin, <<ti, ci>>)
    /\ stdout' = Append(stdout, json_dumps(expanded'))
    /\ UNCHANGED <<globals, pc, ti, ci, varsOpt>>

\* for partition in range(1, case.n_partitions + 1): one run of the body
for_partition_next ==
    /\ pc = "for_partition"
    /\ range_next(partition) < range_stop(config[ci])
    /\ partition' = range_next(partition)
    /\ expanded' = list_append(expanded,
                               make_obj(targets[ti], config[ci], partition'))
    /\ origin' = list_append(origin, <<ti, ci>>)
    /\ UNCHANGED <<globals, pc, ti, ci, stdout, varsOpt>>

\* for partition in range(...): exhausted
for_partition_end ==
    /\ pc = "for_partition"
    /\ range_next(partition) >= range_stop(config[ci])
    /\ pc' = "for_case"
    /\ UNCHANGED <<globals, ti, ci, partition, expanded, origin, stdout, varsOpt>>

\* print_json({"include": expanded}): print(json.dumps(obj), end="", flush=True)
print_json ==
    /\ pc = "print_json"
    /\ stdout' = Append(stdout, json_dumps(expanded))
    /\ pc' = "done"
    /\ UNCHANGED <<globals, ti, ci, partition, expanded, origin, varsOpt>>

Next ==
    \/ for_target_next
    \/ for_target_end
    \/ for_case_next
    \/ for_case_continue
    \/ for_case_end
    \/ for_partition_next
    \/ for_partition_end
    \/ print_json

Spec == Init /\ [][Next]_vars

(***************************************************************************)
(* matrices.py: properties                                                 *)
(***************************************************************************)

PrimaryTriple == "x86_64-unknown-linux-gnu"

\* restricted mode, read off the environment
Restricted == "EVENT_NAME" \in DOMAIN env /\ env["EVENT_NAME"] = "pull_request"

\* the eligibility rule skips the pair (t, c)
Skipped(t, c) ==
    Restricted /\ ~c.pr_cross_platform /\ t.target # PrimaryTriple

ExpansionFinished == pc \in {"print_json", "done"}

\* the positions of `expanded` that hold the descriptors of pair (a, b)
Indices(a, b) == {k \in 1..Len(expanded) : origin[k] = <<a, b>>}

TargetOf(k) == targets[origin[k][1]]
CaseOf(k) == config[origin[k][2]]

\* C1 (completeness): once the expansion has finished, every pair that the
\* eligibility rule does not skip has exactly n_partitions descriptors, whose
\* partition fields are 1..n_partitions each exactly once, and every skipped
\* pair has none.
C1_Completeness ==
    ExpansionFinished =>
        \A a \in 1..Len(targets), b \in 1..Len(config) :
            LET idx == Indices(a, b)
                n == config[b].n_partitions
            IN  IF Skipped(targets[a], config[b])
                THEN idx = {}
                ELSE /\ Cardinality(idx) = n
                     /\ \A k \in idx : /\ expanded[k].partition \in 1..n
                                       /\ expanded[k].target = targets[a].target
                     /\ \A p \in 1..n :
                          Cardinality({k \in idx : expanded[k].partition = p}) = 1

C1_Witness ==
    /\ pc = "done"
    /\ Restricted
    /\ Cardinality(Indices(2, 2)) = 3
    /\ Indices(2, 3) = {}
    /\ Len(expanded) = 12

\* C2 (restricted-mode filtering): under EVENT_NAME = "pull_request" no
\* descriptor has a non-primary target and a case with pr_cross_platform
\* false; under any other EVENT_NAME no pair is skipped: the case loop never
\* passes over a case without entering its partition loop, and at the end
\* every pair has descriptors.
C2_RestrictedFiltering ==
    /\ Restricted =>
          \A k \in 1..Len(expanded) :
              ~(expanded[k].target # PrimaryTriple /\ ~CaseOf(k).pr_cross_platform)
    /\ ~Restricted =>
          /\ \A a \in 1..Len(targets), b \in 1..Len(config) :
                (a < ti \/ (a = ti /\ b < ci) \/ ExpansionFinished)
                    => Indices(a, b) # {}
          /\ (pc = "for_case" /\ ci > 0) => Indices(ti, ci) # {}

C2_Witness ==
    /\ Restricted
    /\ pc = "for_case"
    /\ ti = 2
    /\ ci = 4
    /\ Indices(2, 3) = {}
    /\ Indices(2, 4) = {}
    /\ Indices(1, 3) # {}
    /\ Indices(2, 2) # {}

LexLess(x, y) ==
    \/ x[1] < y[1]
    \/ x[1] = y[1] /\ x[2] < y[2]
    \/ x[1] = y[1] /\ x[2] = y[2] /\ x[3] < y[3]

OrderKey(k) == <<origin[k][1], origin[k][2], expanded[k].partition>>

\* C3 (ordering): at positions i < j of the list, the triple (target index,
\* case index, partition) of i is strictly smaller, lexicographically, than
\* that of j.
C3_Ordering ==
    \A i, j \in 1..Len(expanded) :
        i < j => LexLess(OrderKey(i), OrderKey(j))

C3_Witness ==
    /\ pc = "done"
    /\ Len(expanded) = 24
    /\ OrderKey(8) = <<1, 4, 2>>
    /\ OrderKey(9) = <<2, 1, 1>>

PartitionSuffix(c, i) ==
    IF c.n_partitions > 1
    THEN " (" \o ToString(i) \o "/" \o ToString(c.n_partitions) \o ")"
    ELSE ""

PlatformSuffix(t) ==
    IF Len(targets) > 1 THEN " (" \o t.target \o ")" ELSE ""

\* C4 (name suffixing): a descriptor's name is the case name, then " (i/n)"
\* iff the case has more than one partition, then " (<triple>)" iff more
\* than one target is active.
C4_NameSuffixing ==
    \A k \in 1..Len(expanded) :
        expanded[k].name =
            CaseOf(k).name \o PartitionSuffix(CaseOf(k), expanded[k].partition)
                           \o PlatformSuffix(TargetOf(k))

C4_Witness ==
    /\ \E k \in 1..Len(expanded) :
          expanded[k].name = "integration (2/3) (x86_64-pc-windows-msvc)"
    /\ \E k \in 1..Len(expanded) :
          expanded[k].name = "unit (aarch64-apple-darwin)"

Triples == [k \in 1..Len(targets) |-> targets[k].target]

\* C5 (target selection): the active triples are [linux, windows] exactly
\* when EVENT_NAME is "pull_request" and [linux, macos, windows] otherwise
\* (absent included); the primary target is first and no triple repeats.
C5_TargetSelection ==
    /\ Restricted <=>
          Triples = <<"x86_64-unknown-linux-gnu", "x86_64-pc-windows-msvc">>
    /\ ~Restricted <=>
          Triples = <<"x86_64-unknown-linux-gnu", "aarch64-apple-darwin",
                      "x86_64-pc-windows-msvc">>
    /\ Triples[1] = PrimaryTriple
    /\ \A i, j \in 1..Len(targets) : i # j => Triples[i] # Triples[j]

C5_Witness ==
    /\ "EVENT_NAME" \in DOMAIN env
    /\ env["EVENT_NAME"] = "pull_request_target"
    /\ Len(targets) = 3
    /\ pc = "for_case"
    /\ Len(expanded) > 0
    /\ TargetOf(Len(expanded)).target = "aarch64-apple-darwin"

IsolateProfile == "PROFILE" \in DOMAIN env /\ env["PROFILE"] = "isolate"

\* C7 (flag composition): a descriptor's flags are "-E '<filter>'", then
\* " --partition count:i/n" iff the case has more than one partition, then
\* " --features=isolate-by-default" iff PROFILE is "isolate".
C7_FlagComposition ==
    \A k \in 1..Len(expanded) :
        LET c == CaseOf(k)
            i == expanded[k].partition
        IN  expanded[k].flags =
                "-E '" \o c.filter \o "'"
                \o (IF c.n_partitions > 1
                    THEN " --partition count:" \o ToString(i) \o "/"
                             \o ToString(c.n_partitions)
                    ELSE "")
                \o (IF IsolateProfile THEN " --features=isolate-by-default" ELSE "")

C7_Witness ==
    /\ IsolateProfile
    /\ \E k \in 1..Len(expanded) :
          expanded[k].flags =
              "-E 'package(=forge) & test(~issue)' --partition count:2/2 --features=isolate-by-default"
    /\ \E k \in 1..Len(expanded) :
          expanded[k].flags = "-E '!kind(test)' --features=isolate-by-default"

\* the text of one job descriptor and of one platform record
JobText(d) ==
    "{\"name\": \"" \o d.name \o "\", \"runner_label\": \"" \o d.runner_label
    \o "\", \"target\": \"" \o d.target \o "\", \"svm_target_platform\": \""
    \o d.svm_target_platform \o "\", \"flags\": \"" \o d.flags
    \o "\", \"partition\": " \o ToString(d.partition) \o "}"

PlatformText(t) ==
    "{\"os\": \"" \o t.runner_label \o "\", \"target\": \"" \o t.target \o "\"}"

RECURSIVE CommaJoin(_)
CommaJoin(q) ==
    IF q = <<>> THEN ""
    ELSE IF Len(q) = 1 THEN q[1]
    ELSE q[1] \o ", " \o CommaJoin(Tail(q))

PlatformDocument ==
    "{\"include\": [" \o CommaJoin([k \in 1..Len(targets) |-> PlatformText(targets[k])])
                      \o "]}"

JobDocument ==
    "{\"include\": [" \o CommaJoin([k \in 1..Len(expanded) |-> JobText(expanded[k])])
                      \o "]}"

\* the number of descriptors a complete expansion holds
CompleteLength ==
    Cardinality({x \in (1..Len(targets)) \X (1..Len(config)) \X (1..3) :
                    /\ ~Skipped(targets[x[1]], config[x[2]])
                    /\ x[3] <= config[x[2]].n_partitions})

\* C8 (all-or-nothing emission): standard output is written at most once,
\* nothing is written while a loop of the expansion is in progress, and what
\* is written is the document of the complete list.
C8_AllOrNothing ==
    /\ Len(stdout) <= 1
    /\ pc # "done" => stdout = <<>>
    /\ stdout # <<>> =>
          /\ ti = Len(targets)
          /\ Len(expanded) = CompleteLength
          /\ stdout[1] = JobDocument

C8_Witness ==
    /\ pc = "done"
    /\ Len(stdout) = 1
    /\ ~Restricted
    /\ Len(expanded) = 24
    /\ stdout[1] = JobDocument

\* C9 (name uniqueness): the names of the descriptors are pairwise distinct.
C9_NameUniqueness ==
    \A i, j \in 1..Len(expanded) :
        i # j => expanded[i].name # expanded[j].name

C9_Witness ==
    /\ pc = "done"
    /\ IsolateProfile
    /\ Len(expanded) = 24
    /\ expanded[1].name = "unit (x86_64-unknown-linux-gnu)"
    /\ expanded[9].name = "unit (aarch64-apple-darwin)"

\* C6 as stated (output-mode toggle): when the toggle variable is not set
\* (here: no variable at all is set), the program writes the platform list.
C6_Original ==
    (pc = "done" /\ DOMAIN env = {}) => stdout = <<PlatformDocument>>

\* C6 as amended: no toggle is read; in every environment, whether or not the
\* variable MATRIX_MODE is set, main() writes the expanded job list (six
\* fields per record, at least one record per active target), never the
\* list of bare platform records.
C6_AlwaysJobList ==
    pc = "done" =>
        /\ stdout = <<JobDocument>>
        /\ stdout[1] # PlatformDocument
        /\ \A a \in 1..Len(targets) : Indices(a, 1) # {}

C6_Witness ==
    /\ pc = "done"
    /\ DOMAIN env = {}
    /\ stdout = <<JobDocument>>
    /\ Len(expanded) = 24

(***************************************************************************)
(* optimization_framework.py: AdvancedOptimizationFramework                *)
(*                                                                         *)
(* Times are whole tenths of a second; a percentage is the exact fraction  *)
(* <<numerator, denominator>> in lowest terms.                             *)
(***************************************************************************)

\* the longest execution time drawn, in tenths of a second
MaxTime == 11

\* if execution_time > 1.0 / if execution_time > 0.1, in tenths of a second
CachingThreshold == 10
ComplexityThreshold == 1

OpNames == {"compilation", "sample_test"}

RECURSIVE GCD(_, _)
GCD(a, b) == IF b = 0 THEN a ELSE GCD(b, a % b)

Abs(x) == IF x < 0 THEN -x ELSE x

\* the fraction n / d, d > 0, in lowest terms
Frac(n, d) ==
    LET g == GCD(Abs(n), d)
    IN  <<n \div g, d \div g>>

Zero == <<0, 1>>

\* max(0, x)
max0(x) == IF x[1] > 0 THEN x ELSE Zero

dict_set(d, k, v) ==
    [x \in DOMAIN d \cup {k} |-> IF x = k THEN v ELSE d[x]]

\* _load_optimization_patterns()
optimization_patterns ==
    [o \in {"compilation", "testing", "analysis"} |->
        CASE o = "compilation" ->
                 << "Enable incremental compilation",
                    "Use parallel compilation where possible",
                    "Implement smart caching strategies" >>
          [] o = "testing" ->
                 << "Implement test parallelization",
                    "Use test result caching",
                    "Optimize test data generation" >>
          [] o = "analysis" ->
                 << "Implement lazy evaluation",
                    "Use efficient data structures",
                    "Cache analysis results" >>]

\* _calculate_improvement raises ZeroDivisionError
calculate_improvement_raises(metrics, operation, current_time) ==
    operation \in DOMAIN metrics /\ metrics[operation] = 0

\* _calculate_improvement(operation, current_time), reading `metrics`
calculate_improvement(metrics, operation, current_time) ==
    IF operation \in DOMAIN metrics
    THEN LET previous_time == metrics[operation]
             improvement == Frac((previous_time - current_time) * 100,
                                 previous_time)
         IN  max0(improvement)
    ELSE Zero

\* _generate_optimization_suggestions(operation, execution_time)
generate_optimization_suggestions(operation, execution_time) ==
    (IF execution_time > CachingThreshold
     THEN <<"Consider implementing caching for expensive operations">>
     ELSE <<>>)
    \o (IF execution_time > ComplexityThreshold
        THEN <<"Analyze algorithm complexity for potential improvements">>
        ELSE <<>>)
    \o (IF operation \in DOMAIN optimization_patterns
        THEN optimization_patterns[operation]
        ELSE <<>>)

\* _estimate_memory_usage()
estimate_memory_usage(metrics, cache) ==
    Cardinality(DOMAIN metrics) * 64 + Cardinality(DOMAIN cache) * 256

OptimizationResult(improvement_percentage, execution_time, memory_usage, suggestions) ==
    [improvement_percentage |-> improvement_percentage,
     execution_time |-> execution_time,
     memory_usage |-> memory_usage,
     suggestions |-> suggestions]

\* _analyze_performance(operation, execution_time), reading `metrics`:
\* the new value of optimization_cache
analyze_performance(metrics, cache, operation, execution_time) ==
    dict_set(cache, operation,
        OptimizationResult(
            calculate_improvement(metrics, operation, execution_time),
            execution_time,
            estimate_memory_usage(metrics, cache),
            generate_optimization_suggestions(operation, execution_time)))

MatrixIdle ==
    /\ env = EmptyDict
    /\ profile = None
    /\ is_pr = FALSE
    /\ targets = select_targets(FALSE)
    /\ pc = "for_target"
    /\ ti = 0
    /\ ci = 0
    /\ partition = 0
    /\ expanded = <<>>
    /\ origin = <<>>
    /\ stdout = <<>>

\* __init__
InitOpt ==
    /\ performance_metrics = EmptyDict
    /\ optimization_cache = EmptyDict
    /\ last_call = NoCall
    /\ MatrixIdle

\* optimize_operation(name, operation), the operation taking execution_time:
\* the time is recorded first, then analysed; a ZeroDivisionError of the
\* analysis leaves the cache as it was and propagates to the caller
optimize_operation(name, execution_time) ==
    LET metrics == dict_set(performance_metrics, name, execution_time)
        raises == calculate_improvement_raises(metrics, name, execution_time)
    IN  /\ performance_metrics' = metrics
        /\ optimization_cache' =
              IF raises THEN optimization_cache
              ELSE analyze_performance(metrics, optimization_cache, name,
                                       execution_time)
        /\ last_call' =
              [name |-> name, time |-> execution_time,
               had_previous |-> name \in DOMAIN performance_metrics,
               previous |-> IF name \in DOMAIN performance_metrics
                            THEN performance_metrics[name] ELSE 0,
               raised |-> raises]
        /\ UNCHANGED varsMatrix

NextOpt ==
    \E name \in OpNames, execution_time \in 0..MaxTime :
        optimize_operation(name, execution_time)

SpecOpt == InitOpt /\ [][NextOpt]_vars

\* C10 (improvement across repeated runs): when the latest call ran a name
\* that already had a recorded time previous_time > 0 and returned normally,
\* the cached improvement_percentage of that name is
\* max(0, (previous_time - current_time) / previous_time * 100).
C10_ImprovementAcrossRuns ==
    (last_call.had_previous /\ last_call.previous > 0 /\ ~last_call.raised) =>
        optimization_cache[last_call.name].improvement_percentage =
            max0(Frac((last_call.previous - last_call.time) * 100,
                      last_call.previous))
====
